---------------------------- MODULE Spec2Model ----------------------------
(***************************************************************************)
(* Model of the useDeliveryProducts hook (src/hooks/useDeliveryProducts.ts)*)
(* together with the backend table delivery_products and its realtime      *)
(* change feed, of ProductsPanel over the hook, of the timer of            *)
(* DeliveryOrderCard, and of the access policies of delivery_products.     *)
(*                                                                         *)
(* A row is [id, ver]: id is the primary key, ver stands for the row's     *)
(* content (every backend write of a row yields the next ver, as every     *)
(* write stamps a new updated_at).  A request and the backend's execution  *)
(* of it are one step (the hook's state does not change in between); the   *)
(* delivery of the response to the hook is a later, separate step, and so  *)
(* is the delivery of each realtime notification.                          *)
(***************************************************************************)
EXTENDS Integers, Sequences, FiniteSets, TLC

\* ----------------------------------------------------------------- bounds
NumKeys == 2
MaxVer == 2
MaxCalls == 1
MaxFeed == 2
MaxOps == 3

Keys == 1..NumKeys

VARIABLES
  products,   \* useState<DeliveryProduct[]>: the local collection
  loading,    \* useState(true)
  error,      \* useState<string | null>: "null" or a message
  table,      \* backend: delivery_products, key -> [st, ver, data]
  feed,       \* realtime channel: notifications not yet delivered (FIFO)
  calls,      \* createProduct/updateProduct/deleteProduct calls in flight
  fetch,      \* fetchProducts: idle, request sent, or the response in flight
  seen,       \* keys the view has displayed (ids a caller can pass)
  ops,        \* operations started so far
  env,        \* import.meta.env: the backend's url and key
  mounted,    \* the component that called the hook is mounted
  channel,    \* the realtime channel of the subscription effect
  panel,      \* ProductsPanel: its form, the handler in progress, its alert
  card,       \* DeliveryOrderCard: the order's timestamp, clock and timer state
  access,     \* delivery_products under its access policy, and the last request
  last        \* the step that last patched products, and products before it

hookVars ==
  <<products, loading, error, table, feed, calls, fetch, seen, ops, env,
    mounted, channel, last>>

vars == <<hookVars, panel, card, access>>

\* ------------------------------------------------------ rows and sequences
Row(k, v) == [id |-> k, ver |-> v]

Range(s) == {s[i] : i \in 1..Len(s)}

KeysOf(s) == {s[i].id : i \in 1..Len(s)}

HasKey(s, k) == \E i \in 1..Len(s) : s[i].id = k

Count(s, k) == Cardinality({i \in 1..Len(s) : s[i].id = k})

Filter(s, k) == SelectSeq(s, LAMBDA p : p.id # k)

\* ------------------------------------------------- the realtime handlers
OnInsertNoCheck(prev, row) == Append(prev, row)

OnInsertFront(prev, row) ==
  IF HasKey(prev, row.id) THEN prev ELSE <<row>> \o prev

\* case 'INSERT': setProducts(prev => exists ? prev : [...prev, payload.new])
OnInsert(prev, row) ==
  IF \E i \in 1..Len(prev) : prev[i].id = row.id THEN prev ELSE Append(prev, row)

OnUpdateUpsert(prev, row) ==
  IF HasKey(prev, row.id)
    THEN [i \in 1..Len(prev) |-> IF prev[i].id = row.id THEN row ELSE prev[i]]
    ELSE Append(prev, row)

OnUpdateMoveLast(prev, row) ==
  IF HasKey(prev, row.id) THEN Append(Filter(prev, row.id), row) ELSE prev

\* case 'UPDATE': setProducts(prev => prev.map(p => p.id === new.id ? new : p))
OnUpdate(prev, row) ==
  [i \in 1..Len(prev) |-> IF prev[i].id = row.id THEN row ELSE prev[i]]

RECURSIVE DropFirst(_, _)
DropFirst(s, k) ==
  IF s = <<>> THEN <<>>
  ELSE IF Head(s).id = k THEN Tail(s)
  ELSE <<Head(s)>> \o DropFirst(Tail(s), k)

OnDeleteFirstOnly(prev, k) == DropFirst(prev, k)

\* case 'DELETE': setProducts(prev => prev.filter(p => p.id !== payload.old.id))
OnDelete(prev, k) == SelectSeq(prev, LAMBDA p : p.id # k)

\* payload.new of an INSERT or UPDATE, payload.old of a DELETE: a notification
\* without it carries the id 0
HasPayload(n) == n.id # 0

OnNotificationNoGuard(prev, n) ==
  CASE n.type = "INSERT" -> OnInsert(prev, Row(n.id, n.ver))
    [] n.type = "UPDATE" -> OnUpdate(prev, Row(n.id, n.ver))
    [] n.type = "DELETE" -> OnDelete(prev, n.id)
    [] OTHER -> prev

\* the switch on payload.eventType, each case under if (payload.new) or
\* if (payload.old)
OnNotification(prev, n) ==
  IF ~HasPayload(n) THEN prev
  ELSE CASE n.type = "INSERT" -> OnInsert(prev, Row(n.id, n.ver))
         [] n.type = "UPDATE" -> OnUpdate(prev, Row(n.id, n.ver))
         [] n.type = "DELETE" -> OnDelete(prev, n.id)
         [] OTHER -> prev

\* ------------------------------------------- the CRUD calls' success patches
\* createProduct: setProducts(prev => [...prev, data])
CreatePatch(prev, data) == Append(prev, data)

UpdatePatchUpsert(prev, id, data) ==
  IF \E i \in DOMAIN prev : prev[i].id = id
    THEN [i \in 1..Len(prev) |-> IF prev[i].id = id THEN data ELSE prev[i]]
    ELSE Append(prev, data)

UpdatePatchStale(prev, id, data) == prev

\* updateProduct: setProducts(prev => prev.map(p => p.id === id ? data : p))
UpdatePatch(prev, id, data) ==
  [i \in 1..Len(prev) |-> IF prev[i].id = id THEN data ELSE prev[i]]

DeletePatchInverted(prev, id) == SelectSeq(prev, LAMBDA p : p.id = id)

\* deleteProduct: setProducts(prev => prev.filter(p => p.id !== id))
DeletePatch(prev, id) == SelectSeq(prev, LAMBDA p : p.id # id)

\* the patch a call's successful response applies
SuccessPatch(prev, c) ==
  CASE c.op = "create" -> CreatePatch(prev, Row(c.id, c.ver))
    [] c.op = "update" -> UpdatePatch(prev, c.id, Row(c.id, c.ver))
    [] c.op = "delete" -> DeletePatch(prev, c.id)
    [] OTHER -> prev

\* ------------------------------------------------------ the configuration
\* import.meta.env: VITE_SUPABASE_URL as the sequence of its parts, and
\* VITE_SUPABASE_ANON_KEY; an unset variable is the empty value
Includes(url, part) == \E i \in 1..Len(url) : url[i] = part

RealUrl == <<"https://", "elite", ".supabase.co">>

Urls ==
  {<<>>, <<"your_supabase_url_here">>,
   <<"https://", "placeholder", ".supabase.co">>, RealUrl}

ApiKeys == {"", "your_supabase_anon_key_here", "anon-key"}

Envs == [url : Urls, key : ApiKeys]

RealEnv == [url |-> RealUrl, key |-> "anon-key"]

\* createProduct, updateProduct: !supabaseUrl || supabaseUrl.includes('placeholder')
WriteConfigured(e) == ~(e.url = <<>> \/ Includes(e.url, "placeholder"))

FetchConfiguredUrlOnly(e) == WriteConfigured(e)

\* fetchProducts and the realtime effect: url and key set, neither of them the
\* value of the template, the url without 'placeholder'
FetchConfigured(e) ==
  ~(\/ e.url = <<>>
    \/ e.key = ""
    \/ e.url = <<"your_supabase_url_here">>
    \/ e.key = "your_supabase_anon_key_here"
    \/ Includes(e.url, "placeholder"))

\* the supabase client reaches a backend only with a project's url and key
Reachable(e) == e = RealEnv

\* what the backend can answer under e: a result (TRUE) or an error (FALSE)
Answers(e) == IF Reachable(e) THEN BOOLEAN ELSE {FALSE}

\* ------------------------------------------------------------------- ids
\* ids the client makes up, which are no backend keys: 'temp-1' and 'demo-1'
PlaceholderIds == {-1, -2}

IdText(k) ==
  CASE k = -1 -> <<"t", "e", "m", "p", "-", "1">>
    [] k = -2 -> <<"d", "e", "m", "o", "-", "1">>
    [] OTHER -> <<"u", "u", "i", "d">>

\* String.prototype.startsWith
StartsWith(s, p) == Len(s) >= Len(p) /\ \A i \in 1..Len(p) : s[i] = p[i]

IsPlaceholderTempOnly(k) == StartsWith(IdText(k), <<"t", "e", "m", "p", "-">>)

\* id.startsWith('temp-') || id.startsWith('demo-')
IsPlaceholder(k) ==
  \/ StartsWith(IdText(k), <<"t", "e", "m", "p", "-">>)
  \/ StartsWith(IdText(k), <<"d", "e", "m", "o", "-">>)

\* ------------------------------------------------- products and patches
\* the fields of a row other than its key and its timestamps
NoData == [name |-> "", price |-> ""]

ProductX == [name |-> "X", price |-> "10"]

\* a Partial<DeliveryProduct> as a record of all its possible fields: a field
\* is "absent" (not a key of the object), "undef" (undefined) or has a value
Patches ==
  [id : {"absent", "k9"}, created_at : {"absent", "t0"},
   updated_at : {"absent", "t0"}, has_complements : {"absent", "true"},
   name : {"absent", "undef"}, price : {"absent", "10", "12"},
   complement_groups : {"absent", "null", "array", "object"}]

NoPatch ==
  [id |-> "absent", created_at |-> "absent", updated_at |-> "absent",
   has_complements |-> "absent", name |-> "absent", price |-> "absent",
   complement_groups |-> "absent"]

PriceTwelve == [NoPatch EXCEPT !.price = "12"]

\* new Date().toISOString() at the time of the call
Now == "now"

StripKeepsId(u) ==
  [u EXCEPT !.created_at = "absent", !.updated_at = "absent",
            !.has_complements = "absent"]

\* const { created_at, updated_at, has_complements, id, ...cleanUpdates } = updates
Strip(u) ==
  [u EXCEPT !.created_at = "absent", !.updated_at = "absent",
            !.has_complements = "absent", !.id = "absent"]

Truthy(v) == v \notin {"absent", "undef", "null", ""}

\* complement_groups, when set, is kept if it is an array and else made null
Normalise(u) ==
  IF Truthy(u.complement_groups)
    THEN [u EXCEPT !.complement_groups = IF @ = "array" THEN @ ELSE "null"]
    ELSE u

\* Object.fromEntries(Object.entries({...cleanUpdates, updated_at: now})
\*   .filter(([, value]) => value !== undefined))
SafeUpdate(u, now) ==
  LET e == [Normalise(Strip(u)) EXCEPT !.updated_at = now]
  IN  [f \in DOMAIN e |-> IF e[f] = "undef" THEN "absent" ELSE e[f]]

\* the backend's UPDATE ... SET: the row's fields the payload has are replaced
ApplyUpdate(data, payload) ==
  [name |-> IF payload.name = "absent" THEN data.name ELSE payload.name,
   price |-> IF payload.price = "absent" THEN data.price ELSE payload.price]

\* ------------------------------------------------------------ the backend
IsLive(t, k) == k \in Keys /\ t[k].st = "live"

Live(t) == {k \in Keys : t[k].st = "live"}

Free(t, pool) == {k \in pool : t[k].st = "free"}

\* the server assigns the key: a key never used before
FreshKey(t, pool) == CHOOSE k \in Free(t, pool) : \A j \in Free(t, pool) : k <= j

RECURSIVE RowsFrom(_, _)
RowsFrom(t, k) ==
  IF k > NumKeys THEN <<>>
  ELSE (IF t[k].st = "live" THEN <<Row(k, t[k].ver)>> ELSE <<>>) \o RowsFrom(t, k + 1)

\* select('*').order('name'): the live rows in name order (the key order here)
SelectAll(t) == RowsFrom(t, 1)

Stored(v, data) == [st |-> "live", ver |-> v, data |-> data]

Gone == [st |-> "gone", ver |-> 0, data |-> NoData]

Notif(type, k, v) == [type |-> type, id |-> k, ver |-> v]

\* the change feed: one notification per committed row change
Publish(echo, n) == IF echo THEN Append(feed, n) ELSE feed

CanPublish(echo) == echo => Len(feed) < MaxFeed

\* the backend's error codes, and the text (error.message) that comes with each
ErrorCodes == {"PGRST116", "23505", "42501", "PGRST301", "XX000"}

BackendText(code) ==
  CASE code = "PGRST116" -> "JSON object requested, multiple (or no) rows returned"
    [] code = "23505" -> "duplicate key value violates unique constraint"
    [] code = "42501" -> "permission denied for table delivery_products"
    [] code = "PGRST301" -> "JWT expired"
    [] OTHER -> ""

\* the error of a request that does not ask for exactly one existing row
CallErrors == {"42501"}

\* the errors of update(..).eq('id', id).select('*').single(): PGRST116 when
\* the write returns no row, which is so when no row has the id, and also
\* when the row is there and the access policy keeps the caller from
\* updating it; any other code only when the row is there
WriteErrors(found) == IF found THEN ErrorCodes ELSE {"PGRST116"}

\* a call in flight: its operation, its position, the id it works on, the
\* patch it was given and the backend's answer ({data, error}): ok means
\* error is null, code is error.code, id, ver and data are those of the
\* answer's data (0 and 0 when it is null; the id asked for and the number of
\* rows removed for a delete, whose answer has no data)
Call(op, st, k, ok, v) ==
  [op |-> op, st |-> st, id |-> k, ok |-> ok, ver |-> v,
   code |-> IF ok THEN "none" ELSE "42501", data |-> NoData, patch |-> NoPatch]

Answer(op, k, v, data) == [Call(op, "resp", k, TRUE, v) EXCEPT !.data = data]

Failed(op, st, k, code) == [Call(op, st, k, FALSE, 0) EXCEPT !.code = code]

\* an Error's message: its fixed text, and the id or backend text put into it
Message(text, k, raw) == [text |-> text, id |-> k, raw |-> raw]

NoMessage == Message("none", 0, "")

\* catch (err) { throw new Error(err instanceof Error ? err.message : fallback) }
\* for a backend error object, which is an Error or not with the client's version
Rethrown(code, fallback) ==
  {Message("backend", 0, BackendText(code)), Message(fallback, 0, "")}

NoStep ==
  [kind |-> "none", id |-> 0, ver |-> 0, before |-> <<>>, msg |-> NoMessage,
   data |-> NoData, sent |-> NoPatch]

\* a step that patches products, and what it returns to its caller
Step(kind, k, v) == [NoStep EXCEPT !.kind = kind, !.id = k, !.ver = v, !.before = products]

Return(kind, k, v, data) == [Step(kind, k, v) EXCEPT !.data = data]

\* a step that throws msg to its caller
Raise(kind, k, msg) == [Step(kind, k, 0) EXCEPT !.msg = msg]

\* a step that sends a write with payload for the row k
Send(k, payload) == [Step("write", k, 0) EXCEPT !.sent = payload]

SetProductsUnmounted(new) ==
  /\ products' = new
  /\ seen' = seen \cup KeysOf(new)

\* every setProducts: the view displays the new collection; the state of a
\* component that has unmounted is not updated any more
SetProducts(new) ==
  IF mounted
    THEN /\ products' = new
         /\ seen' = seen \cup KeysOf(new)
    ELSE UNCHANGED <<products, seen>>

\* setLoading and setError, likewise
SetState(old, new) == IF mounted THEN new ELSE old

Idle == [st |-> "idle", ok |-> TRUE, rows |-> <<>>]

InitTable(S) ==
  [k \in Keys |-> IF k \in S THEN Stored(1, ProductX)
                             ELSE [st |-> "free", ver |-> 0, data |-> NoData]]

\* the static products of data/products as fetchProducts maps them; their ids
\* are no backend keys
DemoProducts == <<Row(-2, 1)>>

\* ------------------------------------------------ the realtime subscription
\* no channel: let channel = null and a backend that is not configured
NoChannel == [st |-> "none", opened |-> 0]

\* the subscription effect: supabase.channel(..).on(..).subscribe(..) unless
\* the backend is not configured
Subscribe(e, ch) ==
  IF FetchConfigured(e) THEN [st |-> "joining", opened |-> ch.opened + 1] ELSE ch

\* the subscription of a mounted view once the backend has confirmed it
Joined == [st |-> "joined", opened |-> 1]

\* the statuses the channel reports to the callback of subscribe, and the
\* state of the channel each of them reports
Statuses == {"SUBSCRIBED", "CHANNEL_ERROR", "TIMED_OUT", "CLOSED"}

StatusState(s) ==
  CASE s = "SUBSCRIBED" -> "joined"
    [] s = "CLOSED" -> "closed"
    [] OTHER -> "errored"

CleanupNoGuard(ch) == [ch |-> [ch EXCEPT !.st = "closed"], thrown |-> ch.st = "none"]

\* the cleanup of the subscription effect: if (channel) channel.unsubscribe();
\* its promise is not awaited
Cleanup(ch) ==
  [ch |-> IF ch.st # "none" THEN [ch EXCEPT !.st = "closed"] ELSE ch,
   thrown |-> FALSE]

RerunEveryRender(e, ch) == Subscribe(e, Cleanup(ch).ch)

\* the effect's dependency list is []: a render after the first leaves the
\* channel as it is
Rerun(e, ch) == ch

\* ------------------------------------- the components beside the hook
\* the panel at rest: no form open, no handler in progress, no alert shown
IdlePanel ==
  [pc |-> "idle", form |-> "closed", id |-> 0, saving |-> FALSE,
   alert |-> "none", op |-> "none", took |-> FALSE, reset |-> FALSE]

\* no order card is displayed
NoCard == [mounted |-> FALSE]

\* no request has been made of the table under its policy
NoAccess == [rows |-> <<>>]

\* the runs of the hook by itself
InitAside == panel = IdlePanel /\ card = NoCard /\ access = NoAccess

HookOnly == UNCHANGED <<panel, card, access>>

\* the hook right after construction: the mount effect has called
\* fetchProducts and the channel of the subscription effect has joined
Init ==
  /\ products = <<>>
  /\ loading = TRUE
  /\ error = "null"
  /\ \E S \in {{}, {1}} : table = InitTable(S)
  /\ feed = <<>>
  /\ calls = {}
  /\ fetch = [Idle EXCEPT !.st = "sent"]
  /\ seen = {}
  /\ last = NoStep
  /\ ops = 0
  /\ env = RealEnv
  /\ mounted = TRUE
  /\ InitAside
  /\ channel = Joined

\* --------------------------------------------------------- fetchProducts
\* refetch: setLoading(true); setError(null); then the select is sent or,
\* without a configured backend, data/products is imported
FetchStart ==
  /\ fetch.st = "idle"
  /\ loading' = SetState(loading, TRUE)
  /\ error' = SetState(error, "null")
  /\ fetch' = [Idle EXCEPT !.st = IF FetchConfigured(env) THEN "sent" ELSE "import"]
  /\ last' = NoStep
  /\ ops' = ops + 1
  /\ UNCHANGED <<products, table, feed, calls, seen, env, mounted, channel>>

\* the backend answers the select with its rows, or with an error
FetchServe ==
  /\ fetch.st = "sent"
  /\ \E ok \in Answers(env) :
       fetch' = [st |-> "resp", ok |-> ok,
                 rows |-> IF ok THEN SelectAll(table) ELSE <<>>]
  /\ last' = NoStep
  /\ UNCHANGED <<ops, products, loading, error, table, feed, calls, seen, env, mounted, channel>>

FetchCompleteKeepsRows ==
  /\ fetch.st = "resp"
  /\ IF fetch.ok
       THEN /\ SetProducts(fetch.rows)
            /\ error' = error
       ELSE /\ UNCHANGED <<products, seen>>
            /\ error' = SetState(error, "fetch failed")
  /\ loading' = SetState(loading, FALSE)
  /\ fetch' = Idle
  /\ last' = Step(IF fetch.ok THEN "fetch" ELSE "fetchError", 0, 0)
  /\ UNCHANGED <<ops, table, feed, calls, env, mounted, channel>>

\* setProducts(data || []) or, in the catch, setError + setProducts([]);
\* finally setLoading(false)
FetchComplete ==
  /\ fetch.st = "resp"
  /\ IF fetch.ok
       THEN /\ SetProducts(fetch.rows)
            /\ error' = error
       ELSE /\ SetProducts(<<>>)
            /\ error' = SetState(error, "fetch failed")
  /\ loading' = SetState(loading, FALSE)
  /\ fetch' = Idle
  /\ last' = Step(IF fetch.ok THEN "fetch" ELSE "fetchError", 0, 0)
  /\ UNCHANGED <<ops, table, feed, calls, env, mounted, channel>>

\* the import resolves: setProducts(mappedProducts); setLoading(false); return
FetchDemo ==
  /\ fetch.st = "import"
  /\ SetProducts(DemoProducts)
  /\ loading' = SetState(loading, FALSE)
  /\ fetch' = Idle
  /\ last' = Step("demo", 0, 0)
  /\ UNCHANGED <<ops, error, table, feed, calls, env, mounted, channel>>

\* --------------------------------------------------------- createProduct
CreateOutcomeNoCheck(c) == IF c.ok THEN "row" ELSE "error"

\* if (error) throw error; if (!data || !data.id) throw new Error(..)
CreateOutcome(c) ==
  IF ~c.ok THEN "error"
  ELSE IF c.ver = 0 \/ c.id = 0 THEN "nodata"
  ELSE "row"

\* without a configured url the call throws at once; otherwise
\* insert([...]).select().single(): the backend stores the row under a fresh
\* key and publishes the INSERT, or answers with an error, or (no error) with
\* no record or with a record that has no id
CreateProduct(pool, echo, inputs) ==
  /\ IF ~WriteConfigured(env)
       THEN /\ last' = Raise("createError", 0, Message("Supabase não configurado. Configure as variáveis de ambiente para usar esta funcionalidade.", 0, ""))
            /\ UNCHANGED <<table, feed, calls>>
       ELSE /\ Cardinality(calls) < MaxCalls
            /\ last' = NoStep
            /\ \E p \in inputs, ok \in Answers(env) :
                 IF ok
                   THEN \/ /\ Free(table, pool) # {}
                           /\ CanPublish(echo)
                           /\ LET k == FreshKey(table, pool) IN
                                /\ table' = [table EXCEPT ![k] = Stored(1, p)]
                                /\ feed' = Publish(echo, Notif("INSERT", k, 1))
                                /\ calls' = calls \cup {Answer("create", k, 1, p)}
                        \/ \E c \in {Call("create", "resp", 0, TRUE, 0),
                                     Answer("create", 0, 1, p)} :
                             /\ c \notin calls
                             /\ calls' = calls \cup {c}
                             /\ UNCHANGED <<table, feed>>
                   ELSE \E code \in CallErrors \cup {"23505"} :
                          /\ Failed("create", "resp", 0, code) \notin calls
                          /\ calls' = calls \cup {Failed("create", "resp", 0, code)}
                          /\ UNCHANGED <<table, feed>>
  /\ ops' = ops + 1
  /\ UNCHANGED <<products, loading, error, fetch, seen, env, mounted, channel>>

\* the response arrives: throw, or setProducts(prev => [...prev, data]) and
\* return data
CreateComplete ==
  \E c \in calls :
    /\ c.op = "create" /\ c.st = "resp"
    /\ calls' = calls \ {c}
    /\ CASE CreateOutcome(c) = "row" ->
              /\ SetProducts(CreatePatch(products, Row(c.id, c.ver)))
              /\ last' = Return("create", c.id, c.ver, c.data)
         [] CreateOutcome(c) = "nodata" ->
              /\ UNCHANGED <<products, seen>>
              /\ last' = Raise("createError", 0, Message("Produto não foi criado no banco de dados. Tente novamente.", 0, ""))
         [] OTHER ->
              /\ UNCHANGED <<products, seen>>
              /\ \E m \in Rethrown(c.code, "Erro ao criar produto") :
                   last' = Raise("createError", 0, m)
    /\ UNCHANGED <<ops, loading, error, table, feed, fetch, env, mounted, channel>>

\* --------------------------------------------------------- updateProduct
LookupFoundIgnoreMissing(c) == c.ok

\* neither checkError nor !existingProduct
LookupFound(c) == c.ok /\ c.ver # 0

\* the two throws after the existence lookup
LookupMessage(c) ==
  IF ~c.ok
    THEN Message("Erro ao verificar produto: ", 0, BackendText(c.code))
    ELSE Message("Produto não encontrado no banco de dados. Ele pode ter sido excluído por outro usuário.", 0, "")

UpdateErrorMessageNoConflict(code, id, raw) ==
  IF code = "PGRST116"
    THEN Message("Produto com ID não encontrado para atualização.", id, "")
  ELSE IF code = "42501"
    THEN Message("Sem permissão para atualizar este produto. Verifique as políticas de segurança.", 0, "")
  ELSE Message("Erro ao atualizar produto: ", 0, IF raw # "" THEN raw ELSE "Erro desconhecido")

\* the throws on the write's error, by error.code
UpdateErrorMessage(code, id, raw) ==
  IF code = "PGRST116"
    THEN Message("Produto com ID não encontrado para atualização.", id, "")
  ELSE IF code = "23505"
    THEN Message("Já existe um produto com este código ou nome. Use valores únicos.", 0, "")
  ELSE IF code = "42501"
    THEN Message("Sem permissão para atualizar este produto. Verifique as políticas de segurança.", 0, "")
  ELSE Message("Erro ao atualizar produto: ", 0, IF raw # "" THEN raw ELSE "Erro desconhecido")

UpdateOutcomeIgnoreError(c) ==
  IF c.ver = 0 \/ c.id = 0 THEN "nodata" ELSE "row"

\* if (error) throw ..; if (!data || !data.id) throw ..
UpdateOutcome(c) ==
  IF ~c.ok THEN "error"
  ELSE IF c.ver = 0 \/ c.id = 0 THEN "nodata"
  ELSE "row"

\* a placeholder id or a missing url throws at once; otherwise
\* select('id').eq('id', id).maybeSingle(): the existence lookup is served
UpdateProduct(ids, patches) ==
  \E k \in ids, u \in patches :
    /\ IF IsPlaceholder(k)
         THEN /\ last' = Raise("updateError", k, Message("Não é possível atualizar um produto temporário. Crie o produto primeiro.", 0, ""))
              /\ UNCHANGED calls
         ELSE IF ~WriteConfigured(env)
         THEN /\ last' = Raise("updateError", k, Message("Supabase não configurado. Configure as variáveis de ambiente para usar esta funcionalidade.", 0, ""))
              /\ UNCHANGED calls
         ELSE /\ Cardinality(calls) < MaxCalls
              /\ last' = NoStep
              /\ \E ok \in Answers(env), code \in CallErrors :
                   LET c == IF ok
                              THEN Call("update", "lookup", k, TRUE,
                                        IF IsLive(table, k) THEN 1 ELSE 0)
                              ELSE Failed("update", "lookup", k, code)
                   IN  /\ [c EXCEPT !.patch = u] \notin calls
                       /\ calls' = calls \cup {[c EXCEPT !.patch = u]}
    /\ ops' = ops + 1
    /\ UNCHANGED <<products, loading, error, table, feed, fetch, seen, env, mounted, channel>>

\* the lookup's answer arrives: throw on checkError or no row; otherwise
\* update(safeUpdate).eq('id', id).select('*').single() is served
UpdateWrite(echo) ==
  \E c \in calls :
    /\ c.op = "update" /\ c.st = "lookup"
    /\ IF ~LookupFound(c)
         THEN /\ calls' = calls \ {c}
              /\ last' = Raise("updateError", c.id, LookupMessage(c))
              /\ UNCHANGED <<table, feed>>
         ELSE LET payload == SafeUpdate(c.patch, Now) IN
              /\ last' = Send(c.id, payload)
              /\ \E ok \in Answers(env) :
                   IF ok /\ IsLive(table, c.id)
                     THEN /\ table[c.id].ver < MaxVer
                          /\ CanPublish(echo)
                          /\ LET v == table[c.id].ver + 1
                                 d == ApplyUpdate(table[c.id].data, payload)
                             IN  /\ table' = [table EXCEPT ![c.id] = Stored(v, d)]
                                 /\ feed' = Publish(echo, Notif("UPDATE", c.id, v))
                                 /\ calls' = (calls \ {c}) \cup
                                      {[Answer("update", c.id, v, d)
                                          EXCEPT !.patch = c.patch]}
                     ELSE \E code \in WriteErrors(IsLive(table, c.id)) :
                            /\ calls' = (calls \ {c})
                                 \cup {Failed("update", "resp", c.id, code)}
                            /\ UNCHANGED <<table, feed>>
    /\ UNCHANGED <<ops, products, loading, error, fetch, seen, env, mounted, channel>>

\* the write's answer arrives: throw, or
\* setProducts(prev => prev.map(p => p.id === id ? data : p)) and return data
UpdateComplete ==
  \E c \in calls :
    /\ c.op = "update" /\ c.st = "resp"
    /\ calls' = calls \ {c}
    /\ CASE UpdateOutcome(c) = "row" ->
              /\ SetProducts(UpdatePatch(products, c.id, Row(c.id, c.ver)))
              /\ last' = Return("update", c.id, c.ver, c.data)
         [] UpdateOutcome(c) = "nodata" ->
              /\ UNCHANGED <<products, seen>>
              /\ last' = Raise("updateError", c.id, Message("Erro na atualização - dados não retornados pelo banco.", 0, ""))
         [] OTHER ->
              /\ UNCHANGED <<products, seen>>
              /\ last' = Raise("updateError", c.id,
                               UpdateErrorMessage(c.code, c.id, BackendText(c.code)))
    /\ UNCHANGED <<ops, loading, error, table, feed, fetch, env, mounted, channel>>

\* --------------------------------------------------------- deleteProduct
DeleteOutcomeIgnoreError(c) == "done"

DeleteOutcomeStrict(c) == IF c.ok /\ c.ver # 0 THEN "done" ELSE "error"

\* if (error) throw error
DeleteOutcome(c) == IF c.ok THEN "done" ELSE "error"

\* delete().eq('id', id): the backend removes the row if there is one and
\* publishes the DELETE, or answers with an error
DeleteProduct(ids, echo) ==
  \E k \in ids, ok \in Answers(env), code \in CallErrors :
    LET hit == ok /\ IsLive(table, k)
        c == IF ok THEN Call("delete", "resp", k, TRUE, IF hit THEN 1 ELSE 0)
                   ELSE Failed("delete", "resp", k, code)
    IN  /\ Cardinality(calls) < MaxCalls
        /\ c \notin calls
        /\ calls' = calls \cup {c}
        /\ IF hit
             THEN /\ CanPublish(echo)
                  /\ table' = [table EXCEPT ![k] = Gone]
                  /\ feed' = Publish(echo, Notif("DELETE", k, 0))
             ELSE UNCHANGED <<table, feed>>
        /\ last' = NoStep
        /\ ops' = ops + 1
        /\ UNCHANGED <<products, loading, error, fetch, seen, env, mounted, channel>>

DeleteCompleteSetsError ==
  \E c \in calls :
    /\ c.op = "delete" /\ c.st = "resp"
    /\ calls' = calls \ {c}
    /\ IF DeleteOutcome(c) = "done"
         THEN /\ SetProducts(DeletePatch(products, c.id))
              /\ last' = Step("delete", c.id, c.ver)
              /\ UNCHANGED error
         ELSE /\ UNCHANGED <<products, seen>>
              /\ error' = SetState(error, "delete failed")
              /\ \E m \in Rethrown(c.code, "Erro ao excluir produto") :
                   last' = Raise("deleteError", c.id, m)
    /\ UNCHANGED <<ops, loading, table, feed, fetch, env, mounted, channel>>

\* the response arrives: throw, or setProducts(prev => prev.filter(..))
DeleteComplete ==
  \E c \in calls :
    /\ c.op = "delete" /\ c.st = "resp"
    /\ calls' = calls \ {c}
    /\ IF DeleteOutcome(c) = "done"
         THEN /\ SetProducts(DeletePatch(products, c.id))
              /\ last' = Step("delete", c.id, c.ver)
         ELSE /\ UNCHANGED <<products, seen>>
              /\ \E m \in Rethrown(c.code, "Erro ao excluir produto") :
                   last' = Raise("deleteError", c.id, m)
    /\ UNCHANGED <<ops, loading, error, table, feed, fetch, env, mounted, channel>>

\* ------------------------------------------------- the realtime callback
\* the channel delivers the oldest pending notification to the callback
Notify ==
  /\ feed # <<>>
  /\ channel.st = "joined"
  /\ LET n == Head(feed) IN
       /\ SetProducts(OnNotification(products, n))
       /\ last' = Step(n.type, n.id, n.ver)
  /\ feed' = Tail(feed)
  /\ UNCHANGED <<ops, loading, error, table, calls, fetch, env, mounted, channel>>

\* the channel is not joined: what the feed publishes meanwhile is lost
Drop ==
  /\ feed # <<>>
  /\ channel.st # "joined"
  /\ feed' = Tail(feed)
  /\ last' = NoStep
  /\ UNCHANGED <<ops, products, loading, error, table, calls, fetch, seen, env,
                 mounted, channel>>

\* a notification arrives without payload.new or payload.old
Malformed(types) ==
  \E t \in types :
    /\ Len(feed) < MaxFeed
    /\ feed' = Append(feed, Notif(t, 0, 0))
    /\ last' = NoStep
    /\ ops' = ops + 1
    /\ UNCHANGED <<products, loading, error, table, calls, fetch, seen, env,
                   mounted, channel>>

\* the channel reports a status: the callback of subscribe logs it
Status(s) ==
  /\ channel.st # "none"
  /\ s = "SUBSCRIBED" => channel.st \in {"joining", "errored"} /\ mounted
  /\ s \in {"CHANNEL_ERROR", "TIMED_OUT"} => channel.st # "closed"
  /\ channel' = [channel EXCEPT !.st = StatusState(s)]
  /\ last' = Step("status", 0, 0)
  /\ ops' = ops + 1
  /\ UNCHANGED <<products, loading, error, table, feed, calls, fetch, seen, env,
                 mounted>>

\* -------------------------------------------------- render and unmount
\* the component renders again: the hook runs, its effects do not
Render ==
  /\ mounted
  /\ channel' = Rerun(env, channel)
  /\ last' = Step("render", 0, 0)
  /\ ops' = ops + 1
  /\ UNCHANGED <<products, loading, error, table, feed, calls, fetch, seen, env,
                 mounted>>

\* the component unmounts: the cleanup of the subscription effect runs; the
\* calls and the fetch in flight go on
Unmount ==
  /\ mounted
  /\ mounted' = FALSE
  /\ channel' = Cleanup(channel).ch
  /\ last' = Step(IF Cleanup(channel).thrown THEN "cleanupError" ELSE "cleanup", 0, 1)
  /\ UNCHANGED <<ops, products, loading, error, table, feed, calls, fetch, seen, env>>

\* the cleanup runs once more
CleanupAgain ==
  /\ ~mounted
  /\ channel' = Cleanup(channel).ch
  /\ last' = Step(IF Cleanup(channel).thrown THEN "cleanupError" ELSE "cleanup", 0, 2)
  /\ ops' = ops + 1
  /\ UNCHANGED <<products, loading, error, table, feed, calls, fetch, seen, env,
                 mounted>>

\* ------------------------------------------ other clients of the backend
RemoteInsert(pool) ==
  /\ Free(table, pool) # {}
  /\ Len(feed) < MaxFeed
  /\ LET k == FreshKey(table, pool) IN
       /\ table' = [table EXCEPT ![k] = Stored(1, ProductX)]
       /\ feed' = Append(feed, Notif("INSERT", k, 1))
  /\ last' = NoStep
  /\ ops' = ops + 1
  /\ UNCHANGED <<products, loading, error, calls, fetch, seen, env, mounted, channel>>

RemoteUpdate(pool) ==
  \E k \in pool :
    /\ table[k].st = "live" /\ table[k].ver < MaxVer
    /\ Len(feed) < MaxFeed
    /\ table' = [table EXCEPT ![k] =
                   Stored(table[k].ver + 1, ApplyUpdate(table[k].data, PriceTwelve))]
    /\ feed' = Append(feed, Notif("UPDATE", k, table[k].ver + 1))
    /\ last' = NoStep
    /\ ops' = ops + 1
    /\ UNCHANGED <<products, loading, error, calls, fetch, seen, env, mounted, channel>>

RemoteDelete(pool) ==
  \E k \in pool :
    /\ table[k].st = "live"
    /\ Len(feed) < MaxFeed
    /\ table' = [table EXCEPT ![k] = Gone]
    /\ feed' = Append(feed, Notif("DELETE", k, 0))
    /\ last' = NoStep
    /\ ops' = ops + 1
    /\ UNCHANGED <<products, loading, error, calls, fetch, seen, env, mounted, channel>>

\* ------------------------------------------------------ the specification
\* the model explores runs of at most MaxOps started operations
Budget == ops < MaxOps

\* a configured deployment: the panel creates products, and updates and
\* deletes the products it displays
Next ==
  \/ Budget /\ FetchStart /\ HookOnly
  \/ FetchServe /\ HookOnly
  \/ FetchComplete /\ HookOnly
  \/ Budget /\ CreateProduct(Keys, TRUE, {ProductX}) /\ HookOnly
  \/ CreateComplete /\ HookOnly
  \/ Budget /\ UpdateProduct(seen, {PriceTwelve}) /\ HookOnly
  \/ UpdateWrite(TRUE) /\ HookOnly
  \/ UpdateComplete /\ HookOnly
  \/ Budget /\ DeleteProduct(seen, TRUE) /\ HookOnly
  \/ DeleteComplete /\ HookOnly
  \/ Notify /\ HookOnly
  \/ Budget /\ RemoteInsert(Keys) /\ HookOnly
  \/ Budget /\ RemoteUpdate(Keys) /\ HookOnly
  \/ Budget /\ RemoteDelete(Keys) /\ HookOnly

Spec == Init /\ [][Next]_vars

\* ------------------------------------------------------------------------
\* Replay of notifications and CRUD calls on disjoint keys: the local calls
\* work on LocalKeys and are not echoed on the feed, the notifications come
\* from other clients' changes of RemoteKeys; the collection starts as a
\* completed fetch left it.
LocalKeys == {k \in Keys : k % 2 = 1}

RemoteKeys == Keys \ LocalKeys

InitDisjoint ==
  /\ \E S \in SUBSET Keys : table = InitTable(S)
  /\ products = SelectAll(table)
  /\ loading = FALSE
  /\ error = "null"
  /\ feed = <<>>
  /\ calls = {}
  /\ fetch = Idle
  /\ seen = KeysOf(products)
  /\ ops = 0
  /\ last = NoStep
  /\ env = RealEnv
  /\ mounted = TRUE
  /\ InitAside
  /\ channel = Joined

NextDisjoint ==
  \/ Budget /\ CreateProduct(LocalKeys, FALSE, {ProductX}) /\ HookOnly
  \/ CreateComplete /\ HookOnly
  \/ Budget /\ UpdateProduct(seen \cap LocalKeys, {PriceTwelve}) /\ HookOnly
  \/ UpdateWrite(FALSE) /\ HookOnly
  \/ UpdateComplete /\ HookOnly
  \/ Budget /\ DeleteProduct(seen \cap LocalKeys, FALSE) /\ HookOnly
  \/ DeleteComplete /\ HookOnly
  \/ Notify /\ HookOnly
  \/ Budget /\ RemoteInsert(RemoteKeys) /\ HookOnly
  \/ Budget /\ RemoteUpdate(RemoteKeys) /\ HookOnly
  \/ Budget /\ RemoteDelete(RemoteKeys) /\ HookOnly

SpecDisjoint == InitDisjoint /\ [][NextDisjoint]_vars

\* ------------------------------------------------------------------------
\* One update with any patch, of a displayed product or of a placeholder
\* entry of the panel's form, while another client may delete rows: the
\* collection starts as a completed fetch left it, and the run makes one call
\* of updateProduct (every operation started so far was another client's
\* delete).
NoUpdateYet == ops = Cardinality({k \in Keys : table[k].st = "gone"})

NextPayload ==
  \/ Budget /\ NoUpdateYet /\ UpdateProduct(seen \cup PlaceholderIds, Patches)
       /\ HookOnly
  \/ UpdateWrite(TRUE) /\ HookOnly
  \/ UpdateComplete /\ HookOnly
  \/ Notify /\ HookOnly
  \/ Budget /\ RemoteDelete(Keys) /\ HookOnly

SpecPayload == InitDisjoint /\ [][NextPayload]_vars

\* ------------------------------------------------------------------------
\* The hook without a configured backend: the credentials are absent or the
\* values of the template, no backend answers and no channel is subscribed.
Unconfigured ==
  {e \in Envs :
     \/ e.url \in {<<>>, <<"your_supabase_url_here">>,
                   <<"https://", "placeholder", ".supabase.co">>}
     \/ e.key \in {"", "your_supabase_anon_key_here"}}

InitUnconfigured ==
  /\ env \in Unconfigured
  /\ mounted = TRUE
  /\ InitAside
  /\ channel = Subscribe(env, NoChannel)
  /\ products = <<>>
  /\ loading = TRUE
  /\ error = "null"
  /\ table = InitTable({})
  /\ feed = <<>>
  /\ calls = {}
  /\ fetch = [Idle EXCEPT !.st = IF FetchConfigured(env) THEN "sent" ELSE "import"]
  /\ seen = {}
  /\ last = NoStep
  /\ ops = 0

NextUnconfigured ==
  \/ Budget /\ FetchStart /\ HookOnly
  \/ FetchDemo /\ HookOnly
  \/ Budget /\ CreateProduct(Keys, FALSE, {ProductX}) /\ HookOnly
  \/ CreateComplete /\ HookOnly
  \/ Budget /\ UpdateProduct(Keys \cup seen \cup PlaceholderIds, {PriceTwelve})
       /\ HookOnly
  \/ UpdateWrite(FALSE) /\ HookOnly
  \/ Budget /\ DeleteProduct(seen, FALSE) /\ HookOnly
  \/ DeleteComplete /\ HookOnly

SpecUnconfigured == InitUnconfigured /\ [][NextUnconfigured]_vars

\* ------------------------------------------------------------------------
\* The scenario create, update, delete, update on one key: the table starts
\* empty, the collection as the fetch left it; each call of the sequence is
\* made once the call before it has returned and its notification has been
\* delivered, with the key the create returned.
Settled == calls = {} /\ feed = <<>>

\* the hook over an empty table, its first fetch completed
InitSettled ==
  /\ table = InitTable({})
  /\ products = <<>>
  /\ loading = FALSE
  /\ error = "null"
  /\ feed = <<>>
  /\ calls = {}
  /\ fetch = Idle
  /\ seen = {}
  /\ ops = 0
  /\ last = NoStep
  /\ env = RealEnv
  /\ mounted = TRUE
  /\ channel = Joined

InitScenario == InitSettled /\ InitAside

NextScenario ==
  \/ ops = 0 /\ CreateProduct(Keys, TRUE, {ProductX}) /\ HookOnly
  \/ CreateComplete /\ HookOnly
  \/ ops = 1 /\ Settled /\ UpdateProduct(Live(table), {PriceTwelve})
       /\ HookOnly
  \/ UpdateWrite(TRUE) /\ HookOnly
  \/ UpdateComplete /\ HookOnly
  \/ ops = 2 /\ Settled
       /\ DeleteProduct({k \in Live(table) : table[k].ver > 1}, TRUE)
       /\ HookOnly
  \/ DeleteComplete /\ HookOnly
  \/ ops = 3 /\ Settled
       /\ UpdateProduct({k \in Keys : table[k].st = "gone"}, Patches)
       /\ HookOnly
  \/ Notify /\ HookOnly

SpecScenario == InitScenario /\ [][NextScenario]_vars

\* ------------------------------------------------------------------------
\* The life of one view: it mounts with or without a configured backend
\* (the subscription effect and the first fetchProducts have run), fetches,
\* creates products and renders while it is mounted, the channel reports its
\* statuses and delivers or loses notifications, and the view unmounts.
NoUrlEnv == [url |-> <<>>, key |-> "anon-key"]

InitLifecycle ==
  /\ env \in {RealEnv, NoUrlEnv}
  /\ mounted = TRUE
  /\ InitAside
  /\ channel = Subscribe(env, NoChannel)
  /\ products = <<>>
  /\ loading = TRUE
  /\ error = "null"
  /\ \E S \in {{}, {1}} : table = InitTable(S)
  /\ feed = <<>>
  /\ calls = {}
  /\ fetch = [Idle EXCEPT !.st = IF FetchConfigured(env) THEN "sent" ELSE "import"]
  /\ seen = {}
  /\ last = NoStep
  /\ ops = 0

NextLifecycle ==
  \/ Budget /\ mounted /\ FetchStart /\ HookOnly
  \/ FetchServe /\ HookOnly
  \/ FetchComplete /\ HookOnly
  \/ FetchDemo /\ HookOnly
  \/ Budget /\ mounted /\ CreateProduct(Keys, TRUE, {ProductX}) /\ HookOnly
  \/ CreateComplete /\ HookOnly
  \/ Notify /\ HookOnly
  \/ Drop /\ HookOnly
  \/ Budget /\ Malformed({"INSERT", "UPDATE", "DELETE"}) /\ HookOnly
  \/ \E s \in Statuses : Budget /\ Status(s) /\ HookOnly
  \/ Budget /\ Render /\ HookOnly
  \/ Unmount /\ HookOnly
  \/ Budget /\ CleanupAgain /\ HookOnly

SpecLifecycle == InitLifecycle /\ [][NextLifecycle]_vars

\* ------------------------------------------------------------------------
\* A view that unmounts while its calls are in flight: the collection starts
\* as a completed fetch left it, the view creates, updates and deletes
\* products while it is mounted, and the answers arrive before or after the
\* unmount (the notifications of the view's own changes are left out).
NextUnmount ==
  \/ Budget /\ mounted /\ CreateProduct(Keys, FALSE, {ProductX}) /\ HookOnly
  \/ CreateComplete /\ HookOnly
  \/ Budget /\ mounted /\ UpdateProduct(seen, {PriceTwelve}) /\ HookOnly
  \/ UpdateWrite(FALSE) /\ HookOnly
  \/ UpdateComplete /\ HookOnly
  \/ Budget /\ mounted /\ DeleteProduct(seen, FALSE) /\ HookOnly
  \/ DeleteComplete /\ HookOnly
  \/ Unmount /\ HookOnly

SpecUnmount == InitDisjoint /\ [][NextUnmount]_vars

\* ========================================================================
\* DeliveryOrderCard: the elapsed-time label and the overdue flag of an order.
\* Times are in milliseconds; the clock moves in slices of a tick.
OverdueMinutes == 20

TickMs == 60000

MsPerMinute == 1000 * 60

MinutesPerHour == 60

SlicesPerTick == 3

MaxClockMinutes == 4

Slice == TickMs \div SlicesPerTick

\* `${diffMinutes}min` and `${diffHours}h ${remainingMinutes}min`
MinutesLabel(m) == [text |-> "{m}min", h |-> 0, m |-> m]

HoursLabel(h, m) == [text |-> "{h}h {m}min", h |-> h, m |-> m]

RemWhole(a, b) == a

\* the remainder of JavaScript's %: it has the sign of the dividend
Rem(a, b) == IF a >= 0 THEN a % b ELSE 0 - ((0 - a) % b)

UpdateTimerAlwaysHours(c) ==
  LET diffMinutes == (c.now - c.created) \div MsPerMinute
  IN  [c EXCEPT !.at = c.now,
                !.minutesElapsed = diffMinutes,
                !.timeElapsed = HoursLabel(diffMinutes \div MinutesPerHour,
                                           Rem(diffMinutes, MinutesPerHour)),
                !.isOverdue = diffMinutes > OverdueMinutes]

UpdateTimerFromTwenty(c) ==
  LET diffMinutes == (c.now - c.created) \div MsPerMinute
  IN  [c EXCEPT !.at = c.now,
                !.minutesElapsed = diffMinutes,
                !.timeElapsed =
                   IF diffMinutes < MinutesPerHour
                     THEN MinutesLabel(diffMinutes)
                     ELSE HoursLabel(diffMinutes \div MinutesPerHour,
                                     Rem(diffMinutes, MinutesPerHour)),
                !.isOverdue = diffMinutes >= OverdueMinutes]

\* updateTimer: the whole minutes since order.created_at (Math.floor), the
\* label in minutes under an hour and in hours and minutes from an hour on,
\* the flag for more than 20 minutes
UpdateTimer(c) ==
  LET diffMinutes == (c.now - c.created) \div MsPerMinute
  IN  [c EXCEPT !.at = c.now,
                !.minutesElapsed = diffMinutes,
                !.timeElapsed =
                   IF diffMinutes < MinutesPerHour
                     THEN MinutesLabel(diffMinutes)
                     ELSE HoursLabel(diffMinutes \div MinutesPerHour,
                                     Rem(diffMinutes, MinutesPerHour)),
                !.isOverdue = diffMinutes > OverdueMinutes]

SetIntervalTwice(c) ==
  [c EXCEPT !.due = c.now + 2 * TickMs, !.period = 2 * TickMs,
            !.intervals = c.intervals + 1]

\* setInterval(updateTimer, 60000)
SetInterval(c) ==
  [c EXCEPT !.due = c.now + TickMs, !.period = TickMs,
            !.intervals = c.intervals + 1]

ClearIntervalMissing(c) == c

\* the effect's cleanup: clearInterval(interval)
ClearInterval(c) == [c EXCEPT !.intervals = c.intervals - 1]

\* the timer effect: updateTimer() at once, then the interval
TimerEffect(c) == SetInterval(UpdateTimer([c EXCEPT !.since = c.now, !.ticks = 0]))

\* the card before its first effect: useState(''), useState(false), useState(0)
NewCard(created, now) ==
  [mounted |-> TRUE, created |-> created, now |-> now, since |-> now,
   at |-> now, ticks |-> 0, due |-> now, period |-> 0, intervals |-> 0,
   minutesElapsed |-> 0,
   timeElapsed |-> [text |-> "", h |-> 0, m |-> 0], isOverdue |-> FALSE]

\* order.created_at of the orders displayed: so many minutes before the mount
\* (or after it), on the minute or a slice before it
Createds ==
  {0 - (ago * MsPerMinute + phase) :
     ago \in {0 - 2, 0, 19, 20, 45, 58}, phase \in {0, Slice}}

MaxClock == MaxClockMinutes * MsPerMinute

\* the card right after it has mounted, at time 0
InitCard ==
  /\ \E created \in Createds : card = TimerEffect(NewCard(created, 0))
  /\ panel = IdlePanel
  /\ access = NoAccess
  /\ InitSettled

\* time passes; the interval's callback runs when it is due
CardAdvance ==
  /\ card.now < MaxClock
  /\ card.intervals > 0 => card.now < card.due
  /\ card' = [card EXCEPT !.now = card.now + Slice]
  /\ UNCHANGED <<hookVars, panel, access>>

\* the interval fires: updateTimer
CardTick ==
  /\ card.intervals > 0
  /\ card.now = card.due
  /\ card' = [UpdateTimer(card) EXCEPT !.due = card.due + card.period,
                                       !.ticks = card.ticks + 1]
  /\ UNCHANGED <<hookVars, panel, access>>

\* the order arrives with another created_at: the effect's cleanup clears the
\* interval and the effect runs again
CardReorder ==
  /\ card.mounted
  /\ \E created \in Createds \ {card.created} :
       card' = TimerEffect(ClearInterval([card EXCEPT !.created = created]))
  /\ UNCHANGED <<hookVars, panel, access>>

\* the card unmounts: clearInterval(interval)
CardUnmount ==
  /\ card.mounted
  /\ card' = ClearInterval([card EXCEPT !.mounted = FALSE])
  /\ UNCHANGED <<hookVars, panel, access>>

NextCard ==
  \/ CardAdvance
  \/ CardTick
  \/ CardReorder
  \/ CardUnmount

SpecCard == InitCard /\ [][NextCard]_vars

\* ========================================================================
\* delivery_products under the row-level policies of the migration: callers of
\* either role select, insert, update and delete rows that are active or not.
Roles == {"anon", "authenticated"}

Commands == {"SELECT", "INSERT", "UPDATE", "DELETE"}

PoliciesReadAll ==
  {[name |-> "Allow all operations for authenticated users", cmd |-> "ALL",
    to |-> {"authenticated"}, using |-> "true", check |-> "true"],
   [name |-> "Allow public read access", cmd |-> "SELECT",
    to |-> Roles, using |-> "true", check |-> "none"]}

\* CREATE POLICY .. FOR ALL TO authenticated USING (true) WITH CHECK (true);
\* CREATE POLICY .. FOR SELECT TO public USING (is_active = true)
Policies ==
  {[name |-> "Allow all operations for authenticated users", cmd |-> "ALL",
    to |-> {"authenticated"}, using |-> "true", check |-> "true"],
   [name |-> "Allow public read access", cmd |-> "SELECT",
    to |-> Roles, using |-> "is_active = true", check |-> "none"]}

\* a row of the table: "none" (no row), "active" or "inactive"
RowStates == {"none", "active", "inactive"}

\* the policy expressions over a row
Holds(expr, row) ==
  CASE expr = "true" -> row # "none"
    [] expr = "is_active = true" -> row = "active"
    [] OTHER -> FALSE

Applies(p, role, cmd) == role \in p.to /\ p.cmd \in {"ALL", cmd}

\* the rows a command of the role may read, change or remove (USING)
Visible(role, cmd, row) ==
  \E p \in Policies : Applies(p, role, cmd) /\ Holds(p.using, row)

\* the rows a command of the role may write (WITH CHECK)
Checked(role, cmd, row) ==
  \E p \in Policies : Applies(p, role, cmd) /\ Holds(p.check, row)

\* GRANT ALL .. TO authenticated; GRANT SELECT .. TO anon; defaults stands
\* for the privileges the platform gave anon before the migration
Granted(role, cmd, defaults) ==
  \/ role = "authenticated"
  \/ role = "anon" /\ cmd = "SELECT"
  \/ defaults

NoRequest ==
  [role |-> "none", cmd |-> "none", id |-> 0, new |-> "none",
   result |-> "none", returned |-> {}, affected |-> 0,
   before |-> [k \in Keys |-> "none"]]

Answered(role, cmd, k, new, result, returned, affected) ==
  [role |-> role, cmd |-> cmd, id |-> k, new |-> new, result |-> result,
   returned |-> returned, affected |-> affected, before |-> access.rows]

InitAccess ==
  /\ \E rows \in [Keys -> RowStates], defaults \in BOOLEAN :
       access = [rows |-> rows, defaults |-> defaults, last |-> NoRequest]
  /\ panel = IdlePanel
  /\ card = NoCard
  /\ InitSettled

\* a command without the table privilege is refused (42501)
Refused(role, cmd, k, new) ==
  /\ ~Granted(role, cmd, access.defaults)
  /\ access' = [access EXCEPT
                  !.last = Answered(role, cmd, k, new, "denied", {}, 0)]

Select(role) ==
  \/ Refused(role, "SELECT", 0, "none")
  \/ /\ Granted(role, "SELECT", access.defaults)
     /\ access' = [access EXCEPT !.last =
          Answered(role, "SELECT", 0, "none", "ok",
                   {k \in Keys : Visible(role, "SELECT", access.rows[k])}, 0)]

\* the new row must pass a WITH CHECK, or the insert fails (42501)
Insert(role, k, new) ==
  /\ access.rows[k] = "none"
  /\ \/ Refused(role, "INSERT", k, new)
     \/ /\ Granted(role, "INSERT", access.defaults)
        /\ IF Checked(role, "INSERT", new)
             THEN access' = [access EXCEPT
                    !.rows[k] = new,
                    !.last = Answered(role, "INSERT", k, new, "ok", {k}, 1)]
             ELSE access' = [access EXCEPT
                    !.last = Answered(role, "INSERT", k, new, "violation", {}, 0)]

\* update .. where id = k: the rows the policy lets the role update
Update(role, k, new) ==
  \/ Refused(role, "UPDATE", k, new)
  \/ /\ Granted(role, "UPDATE", access.defaults)
     /\ IF ~Visible(role, "UPDATE", access.rows[k])
          THEN access' = [access EXCEPT
                 !.last = Answered(role, "UPDATE", k, new, "ok", {}, 0)]
          ELSE IF Checked(role, "UPDATE", new)
          THEN access' = [access EXCEPT
                 !.rows[k] = new,
                 !.last = Answered(role, "UPDATE", k, new, "ok", {k}, 1)]
          ELSE access' = [access EXCEPT
                 !.last = Answered(role, "UPDATE", k, new, "violation", {}, 0)]

\* delete .. where id = k: the rows the policy lets the role delete
Delete(role, k) ==
  \/ Refused(role, "DELETE", k, "none")
  \/ /\ Granted(role, "DELETE", access.defaults)
     /\ IF Visible(role, "DELETE", access.rows[k])
          THEN access' = [access EXCEPT
                 !.rows[k] = "none",
                 !.last = Answered(role, "DELETE", k, "none", "ok", {}, 1)]
          ELSE access' = [access EXCEPT
                 !.last = Answered(role, "DELETE", k, "none", "ok", {}, 0)]

NextAccess ==
  \E role \in Roles, k \in Keys, new \in RowStates \ {"none"} :
    \/ Select(role) /\ UNCHANGED <<hookVars, panel, card>>
    \/ Insert(role, k, new) /\ UNCHANGED <<hookVars, panel, card>>
    \/ Update(role, k, new) /\ UNCHANGED <<hookVars, panel, card>>
    \/ Delete(role, k) /\ UNCHANGED <<hookVars, panel, card>>

SpecAccess == InitAccess /\ [][NextAccess]_vars

\* ========================================================================
\* ProductsPanel over the hook: the form, handleSubmit, handleEdit and
\* handleDelete.  A handler that awaits a call of the hook is one step per
\* request and per answer, each taken together with the hook's step.
\* validateProductExists: false at once for a placeholder id, otherwise
\* select('id').eq('id', id).maybeSingle() is served
ValidateProductExists(ids) ==
  \E k \in ids :
    /\ IF IsPlaceholder(k)
         THEN /\ last' = Step("validate", k, 0)
              /\ UNCHANGED calls
         ELSE /\ Cardinality(calls) < MaxCalls
              /\ last' = NoStep
              /\ \E ok \in Answers(env), code \in CallErrors :
                   LET c == IF ok
                              THEN Call("validate", "resp", k, TRUE,
                                        IF IsLive(table, k) THEN 1 ELSE 0)
                              ELSE Failed("validate", "resp", k, code)
                   IN  /\ c \notin calls
                       /\ calls' = calls \cup {c}
    /\ ops' = ops + 1
    /\ UNCHANGED <<products, loading, error, table, feed, fetch, seen, env,
                   mounted, channel>>

\* if (error) return false; return !!data
Exists(c) == c.ok /\ c.ver # 0

\* the lookup's answer arrives: validateProductExists returns a boolean
ValidateComplete ==
  \E c \in calls :
    /\ c.op = "validate" /\ c.st = "resp"
    /\ calls' = calls \ {c}
    /\ last' = Step("validate", c.id, IF Exists(c) THEN 1 ELSE 0)
    /\ UNCHANGED <<ops, products, loading, error, table, feed, fetch, seen, env,
                   mounted, channel>>

\* delete().eq('id', id) by a caller whose role holds the table privilege
\* and whom the policies let delete no row: the backend removes nothing and
\* answers without error
DeleteFiltered(role, ids) ==
  \E k \in ids :
    LET c == Call("delete", "resp", k, TRUE, 0) IN
      /\ IsLive(table, k)
      /\ ~Visible(role, "DELETE", "active")
      /\ Cardinality(calls) < MaxCalls
      /\ c \notin calls
      /\ calls' = calls \cup {c}
      /\ last' = NoStep
      /\ ops' = ops + 1
      /\ UNCHANGED <<products, loading, error, table, feed, fetch, seen, env,
                     mounted, channel>>

\* a handler starts: the alert of the one before has been dismissed
Started(p, pc, op) ==
  [p EXCEPT !.pc = pc, !.op = op, !.alert = "none", !.took = FALSE,
            !.reset = FALSE]

AlertKeepsSaving(p, text) == [p EXCEPT !.pc = "idle", !.alert = text]

\* catch (err) { alert(..message..) } finally { setSaving(false) }
Alert(p, text) == [p EXCEPT !.pc = "idle", !.saving = FALSE, !.alert = text]

\* resetForm() and the finally of handleSubmit
ResetForm(p) ==
  [p EXCEPT !.pc = "idle", !.saving = FALSE, !.form = "closed", !.id = 0,
            !.reset = TRUE]

\* what the handler's try/catch makes of the hook's step: the alert if the
\* call has thrown
AfterCall(p, step, errorKind, text) ==
  IF step.kind = errorKind
    THEN Alert(p, IF step.msg.text # "" THEN text ELSE "Erro desconhecido")
    ELSE p

\* the submit button: disabled={saving}
CanSubmit(p) == ~p.saving

\* the button "Novo Produto": setShowForm(true)
OpenForm ==
  /\ panel.pc = "idle" /\ panel.form = "closed"
  /\ panel' = [Started(panel, "idle", "none") EXCEPT !.form = "new"]
  /\ UNCHANGED <<hookVars, card, access>>

\* handleEdit: setEditingProduct(product); setShowForm(true)
HandleEdit ==
  \E k \in KeysOf(products) :
    /\ panel.pc = "idle"
    /\ panel.form # "edit" \/ panel.id # k
    /\ panel' = [Started(panel, "idle", "none") EXCEPT !.form = "edit", !.id = k]
    /\ UNCHANGED <<hookVars, card, access>>

\* handleSubmit with an image selected whose upload fails
SubmitUploadFails ==
  /\ panel.pc = "idle" /\ panel.form # "closed"
  /\ CanSubmit(panel)
  /\ panel' = Alert(Started(panel, "idle", IF panel.form = "new" THEN "create" ELSE "update"),
                    "Erro ao salvar produto: upload")
  /\ UNCHANGED <<hookVars, card, access>>

\* handleSubmit of a new product: setSaving(true), createProduct(productData)
SubmitCreate ==
  /\ panel.pc = "idle" /\ panel.form = "new"
  /\ CanSubmit(panel)
  /\ CreateProduct(Keys, TRUE, {ProductX})
  /\ panel' = AfterCall([Started(panel, "create", "create")
                           EXCEPT !.saving = TRUE, !.took = table' # table],
                        last', "createError", "Erro ao salvar produto: createProduct")
  /\ UNCHANGED <<card, access>>

\* createProduct returns or throws; without savedProduct?.id the handler throws
SubmitCreated ==
  /\ panel.pc = "create"
  /\ CreateComplete
  /\ panel' = IF last'.kind = "create"
                THEN IF last'.id # 0
                       THEN ResetForm(panel)
                       ELSE Alert(panel, "Erro ao salvar produto: Produto não foi criado corretamente no banco de dados")
                ELSE AfterCall(panel, last', "createError", "Erro ao salvar produto: createProduct")
  /\ UNCHANGED <<card, access>>

\* handleSubmit of an edited product: validateProductExists(editingProduct.id)
SubmitEdit ==
  /\ panel.pc = "idle" /\ panel.form = "edit"
  /\ CanSubmit(panel)
  /\ ValidateProductExists({panel.id})
  /\ panel' = IF last'.kind = "validate"
                THEN Alert(Started(panel, "idle", "update"),
                           "Erro ao salvar produto: Produto com ID não foi encontrado no banco de dados. Ele pode ter sido excluído por outro usuário.")
                ELSE [Started(panel, "validate", "update") EXCEPT !.saving = TRUE]
  /\ UNCHANGED <<card, access>>

\* validateProductExists returns: if (!exists) throw ..
SubmitValidated ==
  /\ panel.pc = "validate"
  /\ ValidateComplete
  /\ panel' = IF last'.ver = 1
                THEN [panel EXCEPT !.pc = "exists"]
                ELSE Alert(panel, "Erro ao salvar produto: Produto com ID não foi encontrado no banco de dados. Ele pode ter sido excluído por outro usuário.")
  /\ UNCHANGED <<card, access>>

\* await updateProduct(editingProduct.id, productData): the call is made
SubmitUpdate ==
  /\ panel.pc = "exists"
  /\ UpdateProduct({panel.id}, {PriceTwelve})
  /\ panel' = AfterCall([panel EXCEPT !.pc = "update"], last', "updateError",
                        "Erro ao salvar produto: updateProduct")
  /\ UNCHANGED <<card, access>>

\* updateProduct goes on from its lookup to its write
SubmitWrite ==
  /\ panel.pc = "update"
  /\ UpdateWrite(TRUE)
  /\ panel' = AfterCall([panel EXCEPT !.took = table' # table], last',
                        "updateError", "Erro ao salvar produto: updateProduct")
  /\ UNCHANGED <<card, access>>

\* updateProduct returns or throws
SubmitUpdated ==
  /\ panel.pc = "update"
  /\ UpdateComplete
  /\ panel' = IF last'.kind = "update"
                THEN ResetForm(panel)
                ELSE AfterCall(panel, last', "updateError", "Erro ao salvar produto: updateProduct")
  /\ UNCHANGED <<card, access>>

\* handleDelete, confirmed: deleteProduct(product.id), made by a client with
\* a session or, as role, by one without
HandleDelete(role) ==
  \E k \in KeysOf(products) :
    /\ panel.pc = "idle"
    /\ DeleteProduct({k}, TRUE) \/ DeleteFiltered(role, {k})
    /\ panel' = [Started(panel, "delete", "delete")
                   EXCEPT !.took = ~IsLive(table', k)]
    /\ UNCHANGED <<card, access>>

\* deleteProduct returns or throws
HandleDeleted ==
  /\ panel.pc = "delete"
  /\ DeleteComplete
  /\ panel' = AfterCall([panel EXCEPT !.pc = "idle"], last', "deleteError",
                        "Erro ao excluir produto: deleteProduct")
  /\ UNCHANGED <<card, access>>

NextPanel ==
  \/ OpenForm
  \/ HandleEdit
  \/ SubmitUploadFails
  \/ Budget /\ SubmitCreate
  \/ SubmitCreated
  \/ Budget /\ SubmitEdit
  \/ SubmitValidated
  \/ Budget /\ SubmitUpdate
  \/ SubmitWrite
  \/ SubmitUpdated
  \/ Budget /\ HandleDelete("anon")
  \/ HandleDeleted
  \/ Notify /\ HookOnly
  \/ Budget /\ RemoteDelete(Keys) /\ HookOnly

SpecPanel == InitDisjoint /\ [][NextPanel]_vars

\* ------------------------------------------------------------- the claims
\* nothing in flight: every call and fetch completed, every notification
\* delivered
Quiescent == calls = {} /\ feed = <<>> /\ fetch.st = "idle"

\* the notification the backend publishes for a call's own change
Echo(c) ==
  CASE c.op = "create" -> Notif("INSERT", c.id, c.ver)
    [] c.op = "update" -> Notif("UPDATE", c.id, c.ver)
    [] OTHER -> Notif("DELETE", c.id, 0)

Succeeded(c) == c.st = "resp" /\ c.ok

\* C1: in every reachable state the products collection holds at most one
\* record per id.
C1_AtMostOneRecordPerKey == \A k \in Keys : Count(products, k) <= 1

\* C2: with notifications and CRUD calls on disjoint keys, once all of them
\* have been applied the collection holds exactly one entry for each live key
\* and none for a removed or never created key.
C2_OneEntryPerLiveKey ==
  (calls = {} /\ feed = <<>>) =>
    \A k \in Keys : Count(products, k) = IF table[k].st = "live" THEN 1 ELSE 0

C2_Witness ==
  /\ calls = {} /\ feed = <<>>
  /\ last.kind # "none"
  /\ \E k \in LocalKeys : table[k].st = "gone" /\ k \in seen
  /\ \E k \in RemoteKeys : table[k].st = "live" /\ table[k].ver > 1
                             /\ Row(k, table[k].ver) \in Range(products)

\* C3: for a call's success patch and the notification echoing the same
\* change, both pending, applying them in either order gives the same
\* collection, which is the collection after applying the change once.
C3_PatchAndEchoCommute ==
  \A c \in calls :
    (Succeeded(c) /\ feed # <<>> /\ Head(feed) = Echo(c)) =>
      LET n == Head(feed)
          patchFirst == OnNotification(SuccessPatch(products, c), n)
          echoFirst == SuccessPatch(OnNotification(products, n), c)
      IN  /\ patchFirst = echoFirst
          /\ echoFirst = SuccessPatch(products, c)

\* C4: once nothing is in flight (and the last fetch did not fail) the
\* collection holds exactly the backend table's rows.
C4_Convergent ==
  (Quiescent /\ error = "null") => Range(products) = Range(SelectAll(table))

\* C5: every mutation step is idempotent: applying a pending success patch or
\* a pending notification twice in a row gives the same collection as
\* applying it once.
C5_StepsIdempotent ==
  /\ \A c \in calls :
       Succeeded(c) =>
         SuccessPatch(SuccessPatch(products, c), c) = SuccessPatch(products, c)
  /\ feed # <<>> =>
       OnNotification(OnNotification(products, Head(feed)), Head(feed))
         = OnNotification(products, Head(feed))

\* C6: an INSERT notification whose key is already present leaves the
\* collection unchanged (same records, same order, record not replaced).
C6_InsertPresentIsNoop ==
  (last.kind = "INSERT" /\ HasKey(last.before, last.id)) => products = last.before

C6_Witness ==
  /\ last.kind = "INSERT"
  /\ \E i \in 1..Len(last.before) :
       last.before[i].id = last.id /\ last.before[i].ver # last.ver

\* C7: an UPDATE or DELETE notification whose key is absent leaves the
\* collection unchanged.
C7_AbsentKeyIsNoop ==
  (last.kind \in {"UPDATE", "DELETE"} /\ ~HasKey(last.before, last.id)) =>
    products = last.before

C7_Witness ==
  /\ last.kind = "UPDATE"
  /\ ~HasKey(last.before, last.id)
  /\ last.before # <<>>

\* C8: an INSERT notification whose key is absent appends its record as the
\* last element; the records present before keep value and position.
C8_InsertAbsentAppends ==
  (last.kind = "INSERT" /\ ~HasKey(last.before, last.id)) =>
    /\ Len(products) = Len(last.before) + 1
    /\ products[Len(products)] = Row(last.id, last.ver)
    /\ \A i \in 1..Len(last.before) : products[i] = last.before[i]

C8_Witness ==
  /\ last.kind = "INSERT"
  /\ ~HasKey(last.before, last.id)
  /\ last.before # <<>>

\* C9: an UPDATE notification whose key is present replaces that record in
\* place: same length, same sequence of keys, the matching record becomes
\* the new row, every other record is unchanged.
C9_UpdateReplacesInPlace ==
  (last.kind = "UPDATE" /\ HasKey(last.before, last.id)) =>
    /\ Len(products) = Len(last.before)
    /\ \A i \in 1..Len(last.before) :
         /\ products[i].id = last.before[i].id
         /\ last.before[i].id = last.id => products[i] = Row(last.id, last.ver)
         /\ last.before[i].id # last.id => products[i] = last.before[i]

C9_Witness ==
  /\ last.kind = "UPDATE"
  /\ Len(last.before) > 1
  /\ last.before[1].id = last.id
  /\ last.before[1].ver # last.ver
  /\ last.before[2].id # last.id

\* C10: a DELETE notification whose key is present removes every record
\* with that key and nothing else: the other records keep value and order.
C10_DeleteRemovesKeyOnly ==
  (last.kind = "DELETE" /\ HasKey(last.before, last.id)) =>
    /\ ~HasKey(products, last.id)
    /\ products = Filter(last.before, last.id)

C10_Witness ==
  /\ last.kind = "DELETE"
  /\ Count(last.before, last.id) > 1
  /\ products # <<>>

\* the calls a step completes (their answer is delivered to the hook), and
\* the calls it makes or moves on
Completed == calls \ calls'

Issued == calls' \ calls

\* C11: createProduct appends to the collection only when the answer carries
\* a record with a key; on an answer without error that has no record, or a
\* record without a key, nothing is appended and the call throws.
C11_CreateAppendsOnlyKeyedRecord ==
  [][\A c \in Completed :
       c.op = "create" =>
         IF c.ok /\ c.ver # 0 /\ c.id \in Keys
           THEN /\ products' = Append(products, Row(c.id, c.ver))
                /\ last'.kind = "create"
                /\ last'.id = c.id
                /\ last'.msg = NoMessage
           ELSE /\ products' = products
                /\ last'.kind = "createError"
                /\ last'.msg # NoMessage]_vars

C11_Witness ==
  /\ last.kind = "createError"
  /\ last.msg.text = "Produto não foi criado no banco de dados. Tente novamente."
  /\ products = last.before
  /\ products # <<>>

\* C12: the collection is patched only when a call's successful answer is
\* delivered (or by a notification or a fetch): no step that sends a request
\* changes it, and a call whose backend answer is an error throws and leaves
\* the collection as it was.
C12_PatchOnlyAfterConfirmation ==
  [][/\ Issued # {} => products' = products
     /\ products' # products =>
          \/ \E c \in Completed : c.st = "resp" /\ c.ok
          \/ feed' # feed
          \/ fetch' # fetch
     /\ \A c \in Completed :
          (c.st = "resp" /\ ~c.ok) =>
            /\ products' = products
            /\ last'.kind \in {"createError", "updateError", "deleteError"}
            /\ last'.msg # NoMessage]_vars

C12_Witness ==
  /\ last.kind = "deleteError"
  /\ HasKey(products, last.id)
  /\ products = last.before

\* C13: the payload updateProduct sends has no id, no created_at and no
\* undefined value, its updated_at is the time updateProduct stamps, and the
\* write changes no row but the one with the id passed to updateProduct.
C13_PayloadIsSanitised ==
  [][last'.kind = "write" =>
       /\ last'.sent.id = "absent"
       /\ last'.sent.created_at = "absent"
       /\ \A f \in DOMAIN last'.sent : last'.sent[f] # "undef"
       /\ last'.sent.updated_at = Now
       /\ \E c \in Completed :
            /\ c.op = "update" /\ c.st = "lookup" /\ c.id = last'.id
            /\ \A k \in Keys \ {c.id} : table'[k] = table[k]]_vars

C13_Witness ==
  /\ last.kind = "write"
  /\ \E c \in calls :
       /\ c.st = "resp" /\ c.ok /\ c.id = last.id
       /\ c.patch.id = "k9" /\ c.patch.created_at = "t0"
       /\ c.patch.updated_at = "t0" /\ c.patch.name = "undef"
       /\ c.patch.complement_groups = "object"
       /\ table[c.id].ver = c.ver
  /\ \E k \in Keys \ {last.id} : table[k].st = "live"

\* C14: a write is sent only for a lookup that found the row; when the lookup
\* answers with an error or with no row, no write is sent, the call throws,
\* and the collection (and the backend) is unchanged.
C14_LookupBeforeWrite ==
  [][/\ \A w \in Issued :
          (w.op = "update" /\ w.st = "resp") =>
            \E c \in Completed :
              c.op = "update" /\ c.st = "lookup" /\ c.id = w.id /\ c.ok /\ c.ver # 0
     /\ \A c \in Completed :
          (c.op = "update" /\ c.st = "lookup" /\ (~c.ok \/ c.ver = 0)) =>
            /\ Issued = {}
            /\ table' = table /\ feed' = feed /\ products' = products
            /\ last'.kind = "updateError"
            /\ last'.msg # NoMessage]_vars

C14_Witness ==
  /\ last.kind = "updateError"
  /\ last.msg.text = "Produto não encontrado no banco de dados. Ele pode ter sido excluído por outro usuário."
  /\ HasKey(products, last.id)
  /\ calls = {}

\* the patch of call c sets no field of the row to another value
ChangesNothing(c) ==
  \A f \in {"name", "price"} :
    c.patch[f] \in {"absent", "undef", table[c.id].data[f]}

NotFoundTexts ==
  {"Produto não encontrado no banco de dados. Ele pode ter sido excluído por outro usuário.",
   "Produto com ID não encontrado para atualização."}

\* C15: an update that changes no field of an existing row succeeds and
\* returns the current record unchanged; an update of a key without a row
\* throws not-found; an existing row is never reported not-found and a
\* missing row never as success.
C15_NoOpOrNotFound ==
  [][/\ \A c \in Issued :
          (c.op = "update" /\ c.st = "resp" /\ c.ok) =>
            /\ IsLive(table, c.id)
            /\ ChangesNothing(c) =>
                 /\ Row(c.id, c.ver) = Row(c.id, table[c.id].ver)
                 /\ c.data = table[c.id].data
     /\ \A c \in Completed :
          c.op = "update" =>
            /\ (c.st = "lookup" /\ c.ok /\ c.ver = 0) =>
                 (last'.kind = "updateError" /\ last'.msg.text \in NotFoundTexts)
            /\ (last'.kind = "updateError" /\ last'.msg.text \in NotFoundTexts) =>
                 ~IsLive(table, c.id)]_vars

\* the parts of C15 that hold: a missing row is never reported as success,
\* and a lookup that finds no row throws not-found
C15_MissingIsNotFound ==
  [][/\ \A c \in Issued :
          (c.op = "update" /\ c.st = "resp" /\ c.ok) => IsLive(table, c.id)
     /\ \A c \in Completed :
          (c.op = "update" /\ c.st = "lookup" /\ c.ok /\ c.ver = 0) =>
            (last'.kind = "updateError" /\ last'.msg.text \in NotFoundTexts)]_vars

\* C15, one part by itself: not-found is thrown only for a row that is missing
C15_NotFoundOnlyIfMissing ==
  (last.kind = "updateError" /\ last.msg.text \in NotFoundTexts) =>
    ~IsLive(table, last.id)

\* C16: a deleteProduct whose key has no row in the backend, answered without
\* error, does not throw; the collection loses every record with that key and
\* keeps the others as they were.
C16_DeleteOfMissingRowSucceeds ==
  [][\A c \in Completed :
       (c.op = "delete" /\ c.ok /\ c.ver = 0) =>
         /\ last'.kind = "delete"
         /\ last'.msg = NoMessage
         /\ ~HasKey(products', c.id)
         /\ products' = Filter(products, c.id)]_vars

C16_Witness ==
  /\ last.kind = "delete"
  /\ last.ver = 0
  /\ HasKey(last.before, last.id)
  /\ products # <<>>

\* C17: when the write fails, the message thrown is the one of the error's
\* code: PGRST116, 23505 and 42501 have a message each, any other code has
\* the generic message with the backend's text; the four differ.
C17_MessageByErrorCode ==
  [][\A c \in Completed :
       (c.op = "update" /\ c.st = "resp" /\ ~c.ok) =>
         /\ last'.kind = "updateError"
         /\ c.code = "PGRST116" =>
              last'.msg = Message("Produto com ID não encontrado para atualização.", c.id, "")
         /\ c.code = "23505" =>
              last'.msg = Message("Já existe um produto com este código ou nome. Use valores únicos.", 0, "")
         /\ c.code = "42501" =>
              last'.msg = Message("Sem permissão para atualizar este produto. Verifique as políticas de segurança.", 0, "")
         /\ c.code \notin {"PGRST116", "23505", "42501"} =>
              /\ last'.msg.text = "Erro ao atualizar produto: "
              /\ last'.msg.raw =
                   IF BackendText(c.code) = "" THEN "Erro desconhecido"
                                               ELSE BackendText(c.code)
         /\ \A a \in ErrorCodes :
              (a \in {"PGRST116", "23505", "42501"} /\ a # c.code) =>
                UpdateErrorMessage(a, c.id, BackendText(a)).text # last'.msg.text]_vars

C17_Witness ==
  /\ last.kind = "updateError"
  /\ last.msg.text = "Erro ao atualizar produto: "
  /\ last.msg.raw = "JWT expired"
  /\ HasKey(products, last.id)

\* C18: updateProduct with an id that begins with 'temp-' or 'demo-' throws
\* without a lookup or a write, and the collection is unchanged.
C18_PlaceholderRejectedLocally ==
  [][/\ \A c \in calls' : c.op = "update" => ~c.id \in PlaceholderIds
     /\ (last'.kind = "updateError" /\ last'.id \in PlaceholderIds) =>
          /\ calls' = calls
          /\ table' = table /\ feed' = feed /\ products' = products
          /\ last'.msg # NoMessage]_vars

C18_Witness ==
  /\ last.kind = "updateError"
  /\ last.id \in PlaceholderIds
  /\ IdText(last.id)[1] = "d"
  /\ products # <<>>

\* C19: with the credentials absent or placeholders fetchProducts sends no
\* request and does not fail: it ends with the static products as the
\* collection, the error state null and loading false.
C19_DemoDataWhenUnconfigured ==
  /\ fetch.st \in {"idle", "import"}
  /\ error = "null"
  /\ last.kind # "fetchError"
  /\ fetch.st = "import" => loading
  /\ last.kind = "demo" => (products = DemoProducts /\ ~loading /\ fetch.st = "idle")

C19_Witness ==
  /\ last.kind = "demo"
  /\ products = DemoProducts
  /\ env.url = RealUrl
  /\ ops > 0

C21_LoadingOnlyForInitialFetch ==
  [][/\ ~loading => ~loading'
     /\ (loading /\ ~loading') => (fetch.st \in {"resp", "import"} /\ fetch'.st = "idle")]_vars

\* the part of C21 that holds: apart from fetchProducts no operation of the
\* hook touches loading, and every completion of a fetch leaves it false
C21_OnlyFetchSetsLoading ==
  [][/\ loading' # loading => fetch' # fetch
     /\ (fetch.st # "idle" /\ fetch'.st = "idle") => ~loading']_vars

\* the kinds of the steps that end in an error
ErrorKinds == {"createError", "updateError", "deleteError", "fetchError", "cleanupError"}

\* C22: with a configured backend one channel subscription is opened, at
\* mount, and none after it, whatever the view does while it is mounted;
\* unmount unsubscribes the channel, and from the unmount on the products
\* collection does not change.
C22_OneSubscriptionPerMount ==
  [][FetchConfigured(env) =>
       /\ channel.opened = 1 /\ channel.st # "none"
       /\ channel'.opened = 1
       /\ ~mounted' => (channel'.st = "closed" /\ products' = products)]_vars

C22_Witness ==
  /\ ~mounted
  /\ channel = [st |-> "closed", opened |-> 1]
  /\ Quiescent
  /\ \E k \in Live(table) : ~HasKey(products, k)

\* C23: in every state of the subscription (no channel, a channel that never
\* was confirmed, a channel in error, a channel already closed) the teardown
\* completes without error, and a second teardown leaves what the first left.
C23_TeardownSafeAndIdempotent ==
  /\ ~Cleanup(channel).thrown
  /\ Cleanup(Cleanup(channel).ch) = Cleanup(channel)
  /\ last.kind = "cleanup" => channel = Cleanup(channel).ch
  /\ last.kind # "cleanupError"

C23_Witness ==
  /\ last.kind = "cleanup"
  /\ last.ver = 2
  /\ channel = NoChannel

\* C24: the unmount cancels no call in flight; a call that completes after
\* the unmount changes no state of the hook, throws only if its own answer
\* is a failure and returns if its answer carries the row.
C24_LatePatchIsDropped ==
  [][/\ (mounted /\ ~mounted') => calls' = calls
     /\ \A c \in Completed :
          ~mounted =>
            /\ products' = products /\ seen' = seen
            /\ loading' = loading /\ error' = error
            /\ last'.kind \in ErrorKinds => (~c.ok \/ c.ver = 0 \/ c.id = 0)
            /\ (Succeeded(c) /\ c.ver # 0 /\ c.id # 0) =>
                 (last'.kind = c.op /\ last'.msg = NoMessage)]_vars

C24_Witness ==
  /\ ~mounted
  /\ last.kind = "create"
  /\ IsLive(table, last.id)
  /\ ~HasKey(products, last.id)

\* C26: a status the channel reports, and a notification without its
\* payload, change none of products, loading and error and throw nothing.
C26_AdapterEventsAreInert ==
  [][(\/ last'.kind = "status"
      \/ feed # <<>> /\ ~HasPayload(Head(feed)) /\ feed' = Tail(feed)) =>
       /\ products' = products
       /\ loading' = loading
       /\ error' = error
       /\ last'.kind \notin ErrorKinds
       /\ last'.msg = NoMessage]_vars

C26_Witness ==
  /\ last.kind = "INSERT"
  /\ ~HasPayload(last)
  /\ products # <<>>
  /\ channel.st = "joined"

\* the card has just run updateTimer for an order created so many whole
\* minutes ago, to the millisecond
JustUpdatedAt(minutes) ==
  /\ card.mounted
  /\ card.at = card.now
  /\ card.now - card.created = minutes * MsPerMinute

\* C27 as stated: for an order created 45 minutes ago the label is
\* "0h 45min" and the overdue flag is true.
C27_LabelInHoursAt45 ==
  JustUpdatedAt(45) =>
    /\ card.timeElapsed = HoursLabel(0, 45)
    /\ card.isOverdue

\* C27 amended: for an order created 45 minutes ago the label is "45min" and
\* the overdue flag is true.
C27_LabelInMinutesAt45 ==
  JustUpdatedAt(45) =>
    /\ card.timeElapsed = MinutesLabel(45)
    /\ card.isOverdue

C27_Witness == JustUpdatedAt(45) /\ card.minutesElapsed = 45

\* C28: after every update of the timer the overdue flag is true exactly when
\* the whole minutes since the creation timestamp exceed 20: false up to 20
\* minutes (a timestamp in the future included), true from 21 minutes on.
C28_OverdueAboveTwenty ==
  card.mounted =>
    LET minutes == (card.at - card.created) \div MsPerMinute
    IN  /\ minutes <= 20 => ~card.isOverdue
        /\ minutes >= 21 => card.isOverdue
        /\ card.minutesElapsed = minutes

C28_Witness ==
  /\ card.mounted
  /\ card.ticks > 0
  /\ card.at - card.created = 20 * MsPerMinute + Slice
  /\ ~card.isOverdue

\* C29: the card runs updateTimer once at mount and once at each 60-second
\* tick of its interval while it is mounted, so the flag of an order is set
\* no later than one interval after its whole minutes exceed 20.
C29_UpdatedEveryTick ==
  card.mounted =>
    /\ card.at = card.since + card.ticks * TickMs
    /\ card.due = card.at + TickMs
    /\ card.now <= card.due
    /\ card.now - card.created >= (OverdueMinutes + 1) * MsPerMinute + TickMs
         => card.isOverdue

C29_Witness ==
  /\ card.mounted
  /\ card.ticks = 2
  /\ card.isOverdue
  /\ card.since - card.created < OverdueMinutes * MsPerMinute

\* C30: an anonymous caller reads exactly the active rows and no insert,
\* update or delete of his changes the table; an authenticated caller reads
\* every row and every insert, update and delete of his takes effect, on
\* active and inactive rows alike.
C30_AnonReadsActiveOnly ==
  LET l == access.last IN
    /\ l.role = "anon" =>
         /\ l.cmd = "SELECT" =>
              (l.result = "ok" /\ l.returned = {k \in Keys : l.before[k] = "active"})
         /\ l.cmd # "SELECT" => (access.rows = l.before /\ l.affected = 0)
    /\ l.role = "authenticated" =>
         /\ l.result = "ok"
         /\ l.cmd = "SELECT" => l.returned = {k \in Keys : l.before[k] # "none"}
         /\ l.cmd = "INSERT" => access.rows = [l.before EXCEPT ![l.id] = l.new]
         /\ (l.cmd = "UPDATE" /\ l.before[l.id] # "none") =>
              access.rows = [l.before EXCEPT ![l.id] = l.new]
         /\ l.cmd = "DELETE" => access.rows = [l.before EXCEPT ![l.id] = "none"]

C30_Witness ==
  /\ access.last.role = "anon"
  /\ access.last.cmd = "DELETE"
  /\ access.last.result = "ok"
  /\ access.rows[access.last.id] = "active"
  /\ \E k \in Keys : access.rows[k] = "inactive"

\* C25: once a handler of the panel that saves or deletes has ended, either
\* its change took effect in the backend or an alert with a message is
\* shown; and the form has been reset and closed only after a create or an
\* update that took effect.
C25_NoSilentFailure ==
  (panel.pc = "idle" /\ panel.op # "none") =>
    /\ ~panel.took => panel.alert \notin {"none", ""}
    /\ panel.reset => (panel.took /\ panel.op \in {"create", "update"}
                       /\ panel.form = "closed")

\* the part of C25 on saves: a create or update that did not take effect
\* ends with an alert, and the form is reset only after one that did
C25_SavesNeverSilent ==
  (panel.pc = "idle" /\ panel.op \in {"create", "update"}) =>
    /\ ~panel.took => panel.alert \notin {"none", ""}
    /\ panel.reset => (panel.took /\ panel.form = "closed")
    /\ (panel.form = "closed" /\ last.kind \in {"create", "update"}) => panel.reset

C32_NeverBackToOlderVersion ==
  [][\A k \in Keys :
       /\ \A i \in DOMAIN products, j \in DOMAIN products' :
            (products[i].id = k /\ products'[j].id = k) =>
              products'[j].ver >= products[i].ver
       /\ (k \in seen /\ ~HasKey(products, k) /\ table'[k].st = "gone") =>
            ~HasKey(products', k)]_vars

\* C33: when the row was deleted after updateProduct's existence lookup found
\* it, the write is answered with PGRST116 and changes no row, and
\* updateProduct then throws the not-found error of the write, returns no
\* record and leaves products as it was.
C33_DeletedBeforeWrite ==
  [][\A c \in calls :
       /\ (/\ c.op = "update" /\ c.st = "lookup" /\ LookupFound(c)
           /\ table[c.id].st = "gone" /\ c \notin calls') =>
            /\ Failed("update", "resp", c.id, "PGRST116") \in calls'
            /\ table' = table
            /\ products' = products
       /\ (/\ c.op = "update" /\ c.st = "resp" /\ ~c.ok /\ c.code = "PGRST116"
           /\ c \notin calls') =>
            /\ last' = Raise("updateError", c.id,
                             Message("Produto com ID não encontrado para atualização.", c.id, ""))
            /\ last'.data = NoData
            /\ products' = products]_vars

\* the write for a row that was deleted after the lookup found it has been
\* sent and answered
C33_Witness ==
  /\ last.kind = "write" /\ last.id \in Keys
  /\ table[last.id].st = "gone"
  /\ Failed("update", "resp", last.id, "PGRST116") \in calls

\* C34: the patch of a successful updateProduct adds no key to products: it
\* keeps the keys and their order, and leaves products as it was when the
\* key is not there any more.
C34_UpdatePatchAddsNoKey ==
  [][\A c \in calls :
       (c.op = "update" /\ c.st = "resp" /\ c \notin calls') =>
         /\ Len(products') = Len(products)
         /\ \A i \in DOMAIN products : products'[i].id = products[i].id
         /\ ~HasKey(products, c.id) => products' = products]_vars

\* an update's successful response was applied after the DELETE notification
\* of its key
C34_Witness ==
  /\ last.kind = "update" /\ last.ver # 0
  /\ ~HasKey(last.before, last.id)
  /\ table[last.id].st = "gone"
  /\ products = last.before

\* C35: whenever fetchProducts takes the backend for unconfigured, no
\* realtime channel is opened and no createProduct or updateProduct request
\* is sent to the backend.
C35_GateConsistent ==
  ~FetchConfigured(env) =>
    /\ channel = NoChannel
    /\ \A c \in calls : c.op \notin {"create", "update"}
    /\ last.kind # "write"

\* the steps in which createProduct, updateProduct or deleteProduct throws
CrudErrorKinds == {"createError", "updateError", "deleteError"}

\* the panel renders the product list: neither the spinner nor the banner
ListDisplayed == ~loading /\ error = "null"

\* C36: a step in which createProduct, updateProduct or deleteProduct throws
\* changes neither error nor loading nor products; if the list was displayed
\* before it, it still is.
C36_CrudFailureKeepsErrorAndLoading ==
  [][(last'.kind \in CrudErrorKinds /\ (calls' # calls \/ ops' # ops)) =>
       /\ error' = error
       /\ loading' = loading
       /\ products' = products
       /\ ListDisplayed => ListDisplayed']_vars

\* a call has thrown while the list was displayed
C36_Witness ==
  /\ last.kind \in CrudErrorKinds
  /\ last.msg.text \notin {"none", ""}
  /\ products # <<>>
  /\ ListDisplayed

\* the stages of a handleSubmit run between setSaving(true) and the finally
SavingStages == {"create", "validate", "exists", "update"}

\* C37: saving is true exactly while a handleSubmit run is under way, so
\* every run ends with saving false; the step in which a run ends with an
\* alert leaves the form open, as it was, with the same product selected and
\* without resetForm; and no run enters its first stage while saving is true.
C37_SavingEndsFalse ==
  [][/\ panel'.saving <=> panel'.pc \in SavingStages
     /\ (/\ panel' # panel /\ panel'.op \in {"create", "update"}
         /\ panel'.pc = "idle" /\ panel'.alert # "none") =>
          /\ ~panel'.saving
          /\ panel'.form # "closed"
          /\ panel'.form = panel.form /\ panel'.id = panel.id
          /\ ~panel'.reset
     /\ (panel'.pc \in {"create", "validate"} /\ panel'.pc # panel.pc) =>
          (~panel.saving /\ panel.pc = "idle")]_vars

\* an update of the edited product has thrown on the write's response: the
\* alert is shown, saving is false and the form still edits the product
C37_Witness ==
  /\ panel.pc = "idle" /\ panel.op = "update"
  /\ last.kind = "updateError"
  /\ panel.alert = "Erro ao salvar produto: updateProduct"
  /\ panel.form = "edit" /\ panel.id = last.id
  /\ ~panel.saving /\ ~panel.reset

\* useState(''), useState(false), useState(0): the card's elapsed-time state
Elapsed(c) == <<c.timeElapsed, c.isOverdue, c.minutesElapsed>>

\* C38: a mounted card has exactly one interval and an unmounted card none;
\* when created_at changes, the one interval left is the new one, due a tick
\* after the change; and no step changes the elapsed-time state of an
\* unmounted card.
C38_OneIntervalWhileMounted ==
  [][/\ card.intervals = (IF card.mounted THEN 1 ELSE 0)
     /\ card'.intervals = (IF card'.mounted THEN 1 ELSE 0)
     /\ card'.created # card.created =>
          (card'.due = card'.now + TickMs /\ card'.ticks = 0)
     /\ ~card.mounted => (Elapsed(card') = Elapsed(card) /\ card'.at = card.at)]_vars

\* the card has unmounted and the time at which its interval was due has
\* passed without an update
C38_Witness ==
  /\ ~card.mounted
  /\ card.intervals = 0
  /\ card.now > card.due
  /\ card.at < card.due
  /\ card.ticks > 0

\* C39: after every update, for d whole minutes elapsed with d >= 0:
\* minutesElapsed is d, the label is "<d>min" under an hour and
\* "<h>h <m>min" with 0 <= m < 60 and 60 * h + m = d from an hour on, and the
\* overdue flag is minutesElapsed > 20.
C39_LabelArithmetic ==
  LET d == (card.at - card.created) \div MsPerMinute IN
    (card.mounted /\ d >= 0) =>
      /\ card.minutesElapsed = d
      /\ card.isOverdue = (card.minutesElapsed > 20)
      /\ d < 60 => card.timeElapsed = MinutesLabel(d)
      /\ d >= 60 =>
           /\ card.timeElapsed.text = "{h}h {m}min"
           /\ card.timeElapsed.m >= 0 /\ card.timeElapsed.m < 60
           /\ 60 * card.timeElapsed.h + card.timeElapsed.m = d

\* a tick has updated the card of an order created 61 minutes before
C39_Witness ==
  /\ card.mounted
  /\ card.ticks > 0
  /\ card.at = card.now
  /\ card.minutesElapsed = 61
  /\ card.timeElapsed = HoursLabel(1, 1)
  /\ card.isOverdue

====
